---- MODULE Spec2Model ----
(***************************************************************************)
(* A model of the graph-theory toolkit: the d-ary heap (DAryHeap), the     *)
(* indexed priority queue built on a binary heap (IndexedPriorityQueue),   *)
(* the three graph storages (adjacency list, adjacency matrix, edge list)  *)
(* and the depth-first topological sort (Dfs_TopSortStrategy).             *)
(*                                                                         *)
(* Each component has its own specification (SpecHeap, SpecQueue,          *)
(* SpecGraph, SpecTopSort); the variables of the other components stay at  *)
(* their idle values.  SpecHeapAnyD builds the heap with d = 0 as well,     *)
(* SpecHeapRemove adds remove(value), SpecSinkDown applies sinkDown alone, *)
(* SpecGraphQueries adds the storages' queries as calls, and LiveTopSort   *)
(* is SpecTopSort run to its end.  Array indices are the program's         *)
(* zero-based indices; a JavaScript array is a TLA+ sequence read through  *)
(* At(h, i) = h[i+1].                                                      *)
(***************************************************************************)
EXTENDS Integers, Sequences, FiniteSets, TLC

VARIABLES
  \* DAryHeap
  heap,             \* DAryHeap.heap : T[]
  d,                \* DAryHeap.d
  lessThanCompare,  \* DAryHeap.lessThanCompare, by name: "default" | "reverse"
  ret,              \* what the last heap call returned, or that it threw
  polled,           \* history: the values poll() returned since the last other call
  hbefore,          \* history: the heap array before the last call
  stored,           \* history: the heap array when that run of polls began
  scripted,         \* whether this run follows the scenario's script
  script            \* the scripted inserts still to make, else << >>

heapVars == <<heap, d, lessThanCompare, ret, hbefore, polled, stored, scripted, script>>

VARIABLES
  \* IndexedPriorityQueue
  qheap,            \* IndexedPriorityQueue.heap : the BinaryHeap's array of <<value, priority>>
  hash,             \* IndexedPriorityQueue.hash : Map<V, number>, a function on its keys
  qret,             \* history: the last queue call and what it returned
  qprev,            \* history: the queue call before the last
  qbefore           \* history: the heap array before the last queue call

queueVars == <<qheap, hash, qret, qprev, qbefore>>

VARIABLES
  \* the three graph storages, each fed the same calls
  ctorSize,         \* the constructors' argument: << >> (none) or <<size>>
  al,               \* AdjacencyList_GraphStorage: [vertices, adjacencyList]
  am,               \* AdjacencyMatrix_GraphStorage: [vertices, adjacencyMatrix, rows]
  el,               \* EdgeList_GraphStorage: [vertices, edges]
  gret,             \* history: the last storage call, its arguments, whether it threw
  gbefore,          \* history: the three storages before the last call
  maxRef,           \* history: the greatest index passed to a successful setEdge, and
                    \* to a successful setEdge or setVertex; -1 when there was none
  lastSet,          \* history: ordered pair -> weight argument of the last setEdge on it
  setVertexCalled,  \* history: whether setVertex was called from outside
  calls             \* history: the number of calls made

graphVars == <<ctorSize, al, am, el, gret, gbefore, maxRef, lastSet, setVertexCalled, calls>>

VARIABLES
  \* Dfs_TopSortStrategy.execute(graph)
  graph,            \* the DirectedGraph handed to execute: [size, edges]
  order,            \* execute's order array; an entry is << >> (undefined) or <<vertex>>
  currentIndex,     \* execute's currentIndex
  visited,          \* execute's visited array
  execVertex,       \* the loop variable, vertex, of execute
  stack,            \* the topSort calls in progress, innermost last: [vertex, todo]
  pc                \* "loop": in execute's loop; "done": execute has returned

topVars == <<graph, order, currentIndex, visited, execVertex, stack, pc>>

vars == <<heapVars, queueVars, graphVars, topVars>>

\* the variables of the components a specification leaves idle
notHeap == <<queueVars, graphVars, topVars>>
notQueue == <<heapVars, graphVars, topVars>>
notGraph == <<heapVars, queueVars, topVars>>
notTop == <<heapVars, queueVars, graphVars>>

----------------------------------------------------------------------------
(* Bounds *)

\* greatest number stored in a heap of the free runs
MaxVal == 2
\* greatest heap length of the free runs
MaxHeapSize == 6
\* greatest branching factor of the free runs
MaxD == 3

\* greatest length of an array that sinkDown is applied to on its own
MaxSinkSize == 4

\* greatest priority handed to enqueue
MaxPriority == 2
\* greatest length of the queue's heap
MaxQueueSize == 3

\* greatest vertex index handed to a storage
MaxVertex == 1
\* greatest vertex count handed to a storage's constructor
MaxInitSize == 2
\* greatest weight handed to setEdge
MaxWeight == 2
\* greatest number of storage calls in a run
MaxCalls == 2

\* greatest number of setEdge and setVertex calls in a run that also makes queries
MaxQueryRunCalls == 1

\* greatest vertex count of a graph handed to the topological sort
MaxGraphSize == 3
\* greatest number of edges of such a graph
MaxEdges == 4

Values == 0 .. MaxVal

\* the values handed to enqueue
QValues == {"a", "b", "c"}

Priorities == 0 .. MaxPriority

\* every sequence over S of length at most n
SeqUpTo(S, n) == UNION {[1 .. k -> S] : k \in 0 .. n}

\* the scripted run: d = 3, insert 5, 3, 8, 1, 9, then poll until empty
Scenario == [d |-> 3, values |-> <<5, 3, 8, 1, 9>>]

----------------------------------------------------------------------------
(* DAryHeap *)

\* the element of a JavaScript array at a zero-based index
At(h, i) == h[i + 1]

\* whether h[i] is an element (otherwise the read yields undefined)
Defined(h, i) == i >= 0 /\ i < Len(h)

\* the elements of a sequence
Range(f) == {f[i] : i \in 1 .. Len(f)}

\* how often x occurs in the array
Count(h, x) == Cardinality({i \in 1 .. Len(h) : h[i] = x})

\* a comparator with its operands exchanged
defaultLessThanCompare_exchanged(a, b) == a - b

defaultLessThanCompare(a, b) == b - a

\* the comparator handed to the constructor: the default, the default with the
\* arguments reversed, the queue's comparator on [value, priority] pairs, or
\* (a, b) => Math.floor(b / 2) - Math.floor(a / 2), under which 2k and 2k + 1 tie
compare(cmp, a, b) ==
  CASE cmp = "default" -> defaultLessThanCompare(a, b)
    [] cmp = "reverse" -> a - b
    [] cmp = "priority" -> b[2] - a[2]
    [] cmp = "halves" -> (b \div 2) - (a \div 2)

\* an index that reads undefined: with d = 0 the quotient is NaN or an infinity
NotAnIndex == -2

parentIndex(index, dd) == IF dd = 0 THEN NotAnIndex ELSE (index - 1) \div dd

size(h) == Len(h)

\* the children of index that lie inside the array, ascending
childIndices(h, index, dd) ==
  SelectSeq([i \in 1 .. dd |-> dd * index + i], LAMBDA c : c < size(h))

isLessThan(cmp, a, b) == compare(cmp, a, b) > 0

swap(h, source, destination) ==
  [h EXCEPT ![source + 1] = At(h, destination), ![destination + 1] = At(h, source)]

\* Array.pop
pop(h) == SubSeq(h, 1, Len(h) - 1)

\* swimUp: [heap, index, threw]; isLessThan throws when it is handed undefined
RECURSIVE swimUp(_, _, _, _)
swimUp(h, index, dd, cmp) ==
  IF index = 0 THEN [heap |-> h, index |-> index, threw |-> FALSE]
  ELSE LET parent == parentIndex(index, dd) IN
    IF ~Defined(h, index) \/ ~Defined(h, parent)
    THEN [heap |-> h, index |-> index, threw |-> TRUE]
    ELSE IF ~isLessThan(cmp, At(h, index), At(h, parent))
    THEN [heap |-> h, index |-> index, threw |-> FALSE]
    ELSE swimUp(swap(h, index, parent), parent, dd, cmp)

\* a reduce that keeps its initial value, the first child
minValueChildIndex_first(h, cs, minValueIndex, cmp) == minValueIndex

\* the reduce of sinkDown: the first child that no other child is less than
RECURSIVE minValueChildIndex(_, _, _, _)
minValueChildIndex(h, cs, minValueIndex, cmp) ==
  IF cs = << >> THEN minValueIndex
  ELSE minValueChildIndex(h, Tail(cs),
         IF isLessThan(cmp, At(h, Head(cs)), At(h, minValueIndex))
         THEN Head(cs) ELSE minValueIndex, cmp)

\* sinkDown: [heap, index]
RECURSIVE sinkDown(_, _, _, _)
sinkDown(h, index, dd, cmp) ==
  LET cs == childIndices(h, index, dd) IN
  IF Len(cs) = 0 THEN [heap |-> h, index |-> index]
  ELSE LET m == minValueChildIndex(h, cs, cs[1], cmp) IN
    IF isLessThan(cmp, At(h, index), At(h, m))
    THEN [heap |-> h, index |-> index]
    ELSE sinkDown(swap(h, index, m), m, dd, cmp)

\* an insert that returns the index it appended at
insert_appendIndex(h, value, dd, cmp) ==
  LET r == swimUp(Append(h, value), size(h), dd, cmp) IN
  [heap |-> r.heap, index |-> size(h), threw |-> r.threw]

\* insert: [heap, index, threw]
insert(h, value, dd, cmp) ==
  LET r == swimUp(Append(h, value), size(h), dd, cmp) IN
  [heap |-> r.heap, index |-> r.index, threw |-> r.threw]

\* peek: << >> for undefined, <<x>> for the root x
peek(h) == IF size(h) = 0 THEN << >> ELSE <<At(h, 0)>>

\* a poll that leaves the new root where the swap put it
poll_noSink(h, dd, cmp) ==
  IF size(h) = 0 THEN [heap |-> h, value |-> << >>]
  ELSE LET swapped == swap(h, 0, size(h) - 1) IN
    [heap |-> pop(swapped), value |-> <<At(swapped, size(h) - 1)>>]

\* poll: [heap, value], value as for peek
poll(h, dd, cmp) ==
  IF size(h) = 0 THEN [heap |-> h, value |-> << >>]
  ELSE LET swapped == swap(h, 0, size(h) - 1) IN
    [heap |-> sinkDown(pop(swapped), 0, dd, cmp).heap,
     value |-> <<At(swapped, size(h) - 1)>>]

\* heap[i] while heap[-1], a property of the array object, holds p: << >> for
\* undefined, <<x>> for the value x
ReadAt(h, p, i) == IF i = -1 THEN p ELSE IF Defined(h, i) THEN <<At(h, i)>> ELSE << >>

\* the reduce of sinkDown(-1), over children that all hold a value
RECURSIVE minValueChildIndexAt(_, _, _, _, _)
minValueChildIndexAt(h, p, cs, minValueIndex, cmp) ==
  IF cs = << >> THEN minValueIndex
  ELSE minValueChildIndexAt(h, p, Tail(cs),
         IF isLessThan(cmp, ReadAt(h, p, Head(cs))[1], ReadAt(h, p, minValueIndex)[1])
         THEN Head(cs) ELSE minValueIndex, cmp)

\* removeAtIndex(-1): [heap, threw].  swap(-1, size() - 1) stores the last element
\* in heap[-1] and what heap[-1] held in the last place, which pop() then drops;
\* swimUp(-1) and sinkDown(-1) read heap[-1] and their other indices.  On an empty
\* array the swap and the pop change nothing and the call throws whatever heap[-1]
\* holds.  A call that never leaves its recursion ends in the engine's RangeError.
removeAtMinusOne(h, dd, cmp) ==
  LET n == size(h)
      p == IF n = 0 THEN << >> ELSE <<At(h, n - 1)>>
      h1 == IF n = 0 THEN h ELSE pop(h)
      parentValue == ReadAt(h1, p, parentIndex(-1, dd))
      cs == childIndices(h1, -1, dd)
      threw == [heap |-> h1, threw |-> TRUE]
      returned == [heap |-> h1, threw |-> FALSE]
  IN IF p = << >> \/ parentValue = << >> THEN threw
     ELSE IF isLessThan(cmp, p[1], parentValue[1]) THEN threw
     ELSE IF cs = << >> THEN returned
     ELSE IF \E i \in 1 .. Len(cs) : ReadAt(h1, p, cs[i]) = << >> THEN threw
     ELSE LET m == minValueChildIndexAt(h1, p, cs, cs[1], cmp) IN
       IF isLessThan(cmp, p[1], ReadAt(h1, p, m)[1]) THEN returned
       ELSE IF m = -1 THEN threw
       ELSE [heap |-> sinkDown([h1 EXCEPT ![m + 1] = p[1]], m, dd, cmp).heap,
             threw |-> FALSE]

\* removeAtIndex for -1 <= index < size(): [heap, threw]
removeAtIndex(h, index, dd, cmp) ==
  IF index = -1 THEN removeAtMinusOne(h, dd, cmp)
  ELSE LET popped == pop(swap(h, index, size(h) - 1))
           up == swimUp(popped, index, dd, cmp)
       IN IF up.threw THEN [heap |-> up.heap, threw |-> TRUE]
          ELSE [heap |-> sinkDown(up.heap, index, dd, cmp).heap, threw |-> FALSE]

\* findIndex with the default compare, a === b: the first index of value, or -1
findIndex(h, value) ==
  IF \E i \in 0 .. size(h) - 1 : At(h, i) = value
  THEN CHOOSE i \in 0 .. size(h) - 1 :
         At(h, i) = value /\ \A k \in 0 .. i - 1 : At(h, k) # value
  ELSE -1

\* remove: [heap, threw]
remove(h, value, dd, cmp) == removeAtIndex(h, findIndex(h, value), dd, cmp)

\* the loop of heapify: sinkDown(i), sinkDown(i - 1), ..., sinkDown(0)
RECURSIVE heapifyFrom(_, _, _, _)
heapifyFrom(h, i, dd, cmp) ==
  IF i < 0 THEN h
  ELSE heapifyFrom(sinkDown(h, i, dd, cmp).heap, i - 1, dd, cmp)

heapify(values, dd, cmp) ==
  heapifyFrom(values, parentIndex(size(values) - 1, dd), dd, cmp)

----------------------------------------------------------------------------
(* The heap's calls *)

InitHeapVars ==
  /\ heap = << >>
  /\ ret = [op |-> "new", threw |-> FALSE]
  /\ hbefore = << >>
  /\ polled = << >>
  /\ stored = << >>
  /\ \/ /\ d \in 1 .. MaxD
        /\ lessThanCompare \in {"default", "reverse"}
        /\ scripted = FALSE
        /\ script = << >>
     \/ /\ d = Scenario.d
        /\ lessThanCompare = "default"
        /\ scripted = TRUE
        /\ script = Scenario.values

\* insert(value); a scripted run inserts the script's next value
Insert(value) ==
  /\ IF scripted
     THEN script # << >> /\ value = Head(script) /\ script' = Tail(script)
     ELSE size(heap) < MaxHeapSize /\ value \in Values /\ script' = script
  /\ LET r == insert(heap, value, d, lessThanCompare) IN
       /\ heap' = r.heap
       /\ ret' = IF r.threw THEN [op |-> "insert", arg |-> value, threw |-> TRUE]
                 ELSE [op |-> "insert", arg |-> value, index |-> r.index, threw |-> FALSE]
       /\ stored' = r.heap
  /\ polled' = << >>
  /\ UNCHANGED <<d, lessThanCompare, scripted>>
  /\ hbefore' = heap
  /\ UNCHANGED notHeap

\* poll(); a scripted run polls once its inserts are made
Poll ==
  /\ script = << >>
  /\ LET r == poll(heap, d, lessThanCompare) IN
       /\ heap' = r.heap
       /\ ret' = [op |-> "poll", value |-> r.value]
       /\ polled' = polled \o r.value
  /\ UNCHANGED <<d, lessThanCompare, stored, scripted, script>>
  /\ hbefore' = heap
  /\ UNCHANGED notHeap

\* removeAtIndex(index) with a valid index
RemoveAtIndex(index) ==
  /\ ~scripted
  /\ index \in 0 .. size(heap) - 1
  /\ LET r == removeAtIndex(heap, index, d, lessThanCompare) IN
       /\ heap' = r.heap
       /\ ret' = [op |-> "removeAtIndex", arg |-> index, threw |-> r.threw]
       /\ stored' = r.heap
  /\ polled' = << >>
  /\ UNCHANGED <<d, lessThanCompare, scripted, script>>
  /\ hbefore' = heap
  /\ UNCHANGED notHeap

\* heapify(values).  It replaces the contents, so the state it leads to does not
\* depend on the state it is called in: it is taken where the constructor calls it
\* (new DAryHeap(d, values)), which reaches every state a later call reaches.
Heapify ==
  /\ ~scripted
  /\ ret.op = "new"
  /\ \E values \in SeqUpTo(Values, MaxHeapSize) :
       heap' = heapify(values, d, lessThanCompare)
  /\ ret' = [op |-> "heapify"]
  /\ stored' = heap'
  /\ polled' = << >>
  /\ UNCHANGED <<d, lessThanCompare, scripted, script>>
  /\ hbefore' = heap
  /\ UNCHANGED notHeap

NextHeap ==
  \/ \E value \in Values \cup {Scenario.values[i] : i \in 1 .. Len(Scenario.values)} :
       Insert(value)
  \/ Poll
  \/ \E index \in 0 .. MaxHeapSize - 1 : RemoveAtIndex(index)
  \/ Heapify

IdleHeap ==
  /\ heap = << >> /\ d = 2 /\ lessThanCompare = "default"
  /\ ret = [op |-> "new", threw |-> FALSE]
  /\ hbefore = << >> /\ polled = << >> /\ stored = << >> /\ scripted = FALSE /\ script = << >>

IdleQueue ==
  /\ qheap = << >> /\ hash = << >> /\ qret = [op |-> "new"] /\ qprev = [op |-> "new"]
  /\ qbefore = << >>

IdleGraph ==
  /\ ctorSize = << >> /\ al = << >> /\ am = << >> /\ el = << >> /\ gret = [op |-> "new"]
  /\ gbefore = << >> /\ maxRef = <<-1, -1>> /\ lastSet = << >> /\ setVertexCalled = FALSE
  /\ calls = 0

IdleTop ==
  /\ graph = [size |-> 0, edges |-> {}] /\ order = << >> /\ currentIndex = -1
  /\ visited = << >> /\ execVertex = 0 /\ stack = << >> /\ pc = "done"

InitHeap == InitHeapVars /\ IdleQueue /\ IdleGraph /\ IdleTop

SpecHeap == InitHeap /\ [][NextHeap]_vars

\* remove(value), for a value the heap holds or does not hold
Remove(value) ==
  /\ ~scripted
  /\ LET r == remove(heap, value, d, lessThanCompare) IN
       /\ heap' = r.heap
       /\ ret' = [op |-> "remove", arg |-> value, index |-> findIndex(heap, value),
                   threw |-> r.threw]
       /\ stored' = r.heap
  /\ polled' = << >>
  /\ UNCHANGED <<d, lessThanCompare, scripted, script>>
  /\ hbefore' = heap
  /\ UNCHANGED notHeap

\* the heap's calls, remove among them
NextHeapRemove ==
  \/ NextHeap
  \/ \E value \in Values : Remove(value)

SpecHeapRemove == InitHeap /\ [][NextHeapRemove]_vars

\* new DAryHeap(d) and new DAryHeap(d, compare) with any d >= 0: the constructor
\* stores d as it is handed in and throws nowhere
InitHeapAnyD ==
  /\ heap = << >>
  /\ ret = [op |-> "new", threw |-> FALSE]
  /\ hbefore = << >>
  /\ polled = << >>
  /\ stored = << >>
  /\ d \in 0 .. MaxD
  /\ lessThanCompare \in {"default", "reverse"}
  /\ scripted = FALSE
  /\ script = << >>
  /\ IdleQueue /\ IdleGraph /\ IdleTop

\* the calls on a heap built without values
NextHeapAnyD ==
  \/ \E value \in Values : Insert(value)
  \/ Poll
  \/ \E index \in 0 .. MaxHeapSize - 1 : RemoveAtIndex(index)

SpecHeapAnyD == InitHeapAnyD /\ [][NextHeapAnyD]_vars

----------------------------------------------------------------------------
(* Claims about the heap *)

\* the heap-order property of an array under branching factor dd and comparator cmp
HeapOrder(h, dd, cmp) ==
  \A i \in 0 .. size(h) - 1 : \A c \in dd * i + 1 .. dd * i + dd :
    c < size(h) => compare(cmp, At(h, i), At(h, c)) >= 0

\* C3: after any sequence of insert, poll, removeAtIndex (valid index) and heapify
\* calls with d >= 1, every node's comparison with each of its children that lies
\* below size() is >= 0.
C3_HeapOrder == d >= 1 => HeapOrder(heap, d, lessThanCompare)

\* C3's case: removeAtIndex(3) puts the last element, 0, under the parent 1 of
\* another subtree, and it has to swim up
C3_Witness ==
  /\ ret.op = "removeAtIndex" /\ ~ret.threw /\ ret.arg = 3
  /\ d = 2 /\ lessThanCompare = "default"
  /\ hbefore = <<0, 1, 0, 1, 1, 0>> /\ heap = <<0, 0, 0, 1, 1>>

\* C4: polling until the heap is empty with no other call in between returns every
\* stored element exactly once, and no polled element is outranked by one polled
\* after it (each strictly outranks the later ones when the stored elements are
\* pairwise distinct under the comparator).
C4_PollOrder ==
  /\ \A x \in Values \cup {Scenario.values[i] : i \in 1 .. Len(Scenario.values)} :
       Count(polled, x) + Count(heap, x) = Count(stored, x)
  /\ \A i, j \in 1 .. Len(polled) :
       i < j => compare(lessThanCompare, polled[j], polled[i]) <= 0
  /\ (\A i, j \in 1 .. Len(stored) :
        i # j => compare(lessThanCompare, stored[i], stored[j]) # 0)
     => \A i, j \in 1 .. Len(polled) :
          i < j => compare(lessThanCompare, polled[i], polled[j]) > 0

\* C4's case: a heap of three or more elements, not all equal, polled until empty
C4_Witness ==
  /\ ~scripted /\ ret.op = "poll" /\ heap = << >>
  /\ Len(polled) >= 3 /\ polled[1] # polled[3] /\ d = 2

\* C5 as amended: with the default comparator the least number of the heap sits at
\* the root; with d = 3, after inserting 5, 3, 8, 1, 9, peek() returns 1 and five
\* polls return 1, 3, 5, 8, 9.
C5_DefaultIsMinHeap ==
  /\ lessThanCompare = "default" =>
       \A i \in 0 .. size(heap) - 1 : At(heap, 0) <= At(heap, i)
  /\ (scripted /\ script = << >> /\ polled = << >> /\ ret.op = "insert")
       => peek(heap) = <<1>>
  /\ (scripted /\ script = << >> /\ Len(polled) = Len(Scenario.values))
       => polled = <<1, 3, 5, 8, 9>>

\* C5's case: the scripted run has made its five inserts and its five polls
C5_Witness ==
  scripted /\ script = << >> /\ Len(polled) = Len(Scenario.values) /\ heap = << >>

\* C5 as stated: with the default comparator the greatest number of the heap sits
\* at the root; in the scripted run peek() returns 9 and the polls return
\* 9, 8, 5, 3, 1.
C5_DefaultIsMaxHeap ==
  /\ lessThanCompare = "default" =>
       \A i \in 0 .. size(heap) - 1 : At(heap, 0) >= At(heap, i)
  /\ (scripted /\ script = << >> /\ polled = << >> /\ ret.op = "insert")
       => peek(heap) = <<9>>
  /\ (scripted /\ script = << >> /\ Len(polled) = Len(Scenario.values))
       => polled = <<9, 8, 5, 3, 1>>

\* the array h holds what the array g holds and one x more
OneMore(h, g, x) ==
  /\ size(h) = size(g) + 1
  /\ \A y \in Range(h) \cup Range(g) \cup {x} :
       Count(h, y) = Count(g, y) + (IF y = x THEN 1 ELSE 0)

\* C13: removeAtIndex(i) with 0 <= i < size(), the last index included, raises no
\* error, makes size() one less, and leaves the previous contents without the
\* element that was at index i.
C13_RemoveAtIndexSucceeds ==
  ret.op = "removeAtIndex" =>
    /\ ~ret.threw
    /\ size(heap) = size(hbefore) - 1
    /\ OneMore(hbefore, heap, At(hbefore, ret.arg))

\* heapify's first step, this.heap = values, before any sinkDown: any array, under
\* any d >= 1 and any of the comparators on numbers
InitSinkDown ==
  /\ heap \in SeqUpTo(Values, MaxSinkSize)
  /\ ret = [op |-> "new", threw |-> FALSE]
  /\ hbefore = heap
  /\ polled = << >>
  /\ stored = heap
  /\ d \in 1 .. MaxD
  /\ lessThanCompare \in {"default", "reverse", "halves"}
  /\ scripted = FALSE
  /\ script = << >>
  /\ IdleQueue /\ IdleGraph /\ IdleTop

\* sinkDown(index), as heapify, poll and removeAtIndex call it
SinkDown(index) ==
  /\ index \in 0 .. size(heap) - 1
  /\ LET r == sinkDown(heap, index, d, lessThanCompare) IN
       /\ heap' = r.heap
       /\ ret' = [op |-> "sinkDown", arg |-> index, index |-> r.index, threw |-> FALSE]
       /\ stored' = r.heap
  /\ polled' = << >>
  /\ hbefore' = heap
  /\ UNCHANGED <<d, lessThanCompare, scripted, script>>
  /\ UNCHANGED notHeap

NextSinkDown == \E index \in 0 .. MaxSinkSize - 1 : SinkDown(index)

SpecSinkDown == InitSinkDown /\ [][NextSinkDown]_vars

\* C17: sinkDown(index) swaps the node only with the child that no other child
\* outranks, and only when that child strictly outranks the node: when the two tie
\* under the comparator, or the node outranks the child, the heap array is left
\* as it was.
C17_SinkDownKeepsTies ==
  (ret.op = "sinkDown" /\ childIndices(hbefore, ret.arg, d) # << >>) =>
    LET cs == childIndices(hbefore, ret.arg, d)
        m == minValueChildIndex(hbefore, cs, cs[1], lessThanCompare)
    IN /\ \A i \in 1 .. Len(cs) :
            ~isLessThan(lessThanCompare, At(hbefore, cs[i]), At(hbefore, m))
       /\ ~isLessThan(lessThanCompare, At(hbefore, m), At(hbefore, ret.arg))
            => heap = hbefore
       /\ isLessThan(lessThanCompare, At(hbefore, m), At(hbefore, ret.arg))
            => At(heap, ret.arg) = At(hbefore, m)

\* C15: right after r = insert(x), 0 <= r < size() and heap[r] is x, size() is one
\* more than before, and the contents are the previous contents and x.
C15_InsertReturnsIndex ==
  ret.op = "insert" =>
    /\ ~ret.threw
    /\ 0 <= ret.index /\ ret.index < size(heap)
    /\ At(heap, ret.index) = ret.arg
    /\ size(heap) = size(hbefore) + 1
    /\ OneMore(heap, hbefore, ret.arg)

\* C15's case: the inserted value swims from the fourth place of a binary heap up
\* to the root, past two different values
C15_Witness ==
  /\ ret.op = "insert" /\ ret.index = 0 /\ d = 2 /\ size(heap) = 4
  /\ At(heap, 3) # ret.arg /\ At(heap, 1) # ret.arg

\* C20: remove(value) for a value that findIndex does not find leaves size() and
\* the stored elements as they were.
C20_RemoveAbsentChangesNothing ==
  (ret.op = "remove" /\ ret.index = -1) => heap = hbefore

\* C14: a DAryHeap whose d is less than 1 exists only as a construction that
\* threw: no insert or poll call is ever made on a heap with d < 1.
C14_InvalidDRejected ==
  d < 1 => (ret.op = "new" /\ ret.threw)

----------------------------------------------------------------------------
(* BinaryHeap, as IndexedPriorityQueue uses it: the d-ary heap with d = 2 *)

\* BinaryHeap.insert: [heap, index]
BinaryHeap_insert(h, item, cmp) == insert(h, item, 2, cmp)

\* BinaryHeap.poll: [heap, value]
BinaryHeap_poll(h, cmp) == poll(h, 2, cmp)

\* BinaryHeap.updateAt for 0 <= index < size(): replace the entry in place, then
\* reposition it; [heap, index], the index where it comes to rest
BinaryHeap_updateAt(h, index, item, cmp) ==
  LET up == swimUp([h EXCEPT ![index + 1] = item], index, 2, cmp)
      down == sinkDown(up.heap, up.index, 2, cmp)
  IN [heap |-> down.heap, index |-> down.index]

----------------------------------------------------------------------------
(* IndexedPriorityQueue *)

IPQ_size(h) == size(h)

IPQ_findIndex(hs, value) ==
  IF value \in DOMAIN hs /\ hs[value] > -1 THEN hs[value] ELSE -1

\* Map.set
MapSet(m, k, v) == [x \in DOMAIN m \cup {k} |-> IF x = k THEN v ELSE m[x]]

\* Map.delete
MapDelete(m, k) == [x \in DOMAIN m \ {k} |-> m[x]]

\* enqueue: [heap, hash]
IPQ_enqueue(h, hs, value, priority) ==
  LET index == IPQ_findIndex(hs, value) IN
  IF index > -1
  THEN LET r == BinaryHeap_updateAt(h, index, <<value, priority>>, "priority") IN
    [heap |-> r.heap, hash |-> MapSet(hs, value, r.index)]
  ELSE LET r == BinaryHeap_insert(h, <<value, priority>>, "priority") IN
    [heap |-> r.heap, hash |-> MapSet(hs, value, r.index)]

\* dequeue: [heap, hash, item], item << >> for undefined
IPQ_dequeue(h, hs) ==
  LET r == BinaryHeap_poll(h, "priority") IN
  [heap |-> r.heap,
   hash |-> IF r.value # << >> THEN MapDelete(hs, r.value[1][1]) ELSE hs,
   item |-> r.value]

\* enqueue(value, priority).  updateAt is taken only at an index inside the heap
\* array, and a fresh insert only below the bound on the array's length.
Enqueue(value, priority) ==
  /\ IF IPQ_findIndex(hash, value) > -1
     THEN IPQ_findIndex(hash, value) < size(qheap)
     ELSE size(qheap) < MaxQueueSize
  /\ LET r == IPQ_enqueue(qheap, hash, value, priority) IN
       /\ qheap' = r.heap
       /\ hash' = r.hash
  /\ qret' = [op |-> "enqueue", value |-> value, priority |-> priority]
  /\ qprev' = qret
  /\ qbefore' = qheap
  /\ UNCHANGED notQueue

Dequeue ==
  /\ LET r == IPQ_dequeue(qheap, hash) IN
       /\ qheap' = r.heap
       /\ hash' = r.hash
       /\ qret' = [op |-> "dequeue", item |-> r.item]
  /\ qprev' = qret
  /\ qbefore' = qheap
  /\ UNCHANGED notQueue

NextQueue ==
  \/ \E value \in QValues, priority \in Priorities : Enqueue(value, priority)
  \/ Dequeue

InitQueue == IdleHeap /\ IdleQueue /\ IdleGraph /\ IdleTop

SpecQueue == InitQueue /\ [][NextQueue]_vars

----------------------------------------------------------------------------
(* Claims about the queue *)

\* the positions of the heap array that hold an entry for value
EntriesOf(h, value) == {i \in 0 .. size(h) - 1 : At(h, i)[1] = value}

\* the priorities the heap array holds for value, with their multiplicities
PrioritiesOf(h, value, priority) ==
  Cardinality({i \in EntriesOf(h, value) : At(h, i)[2] = priority})

\* C1: after any sequence of enqueue and dequeue calls, the heap entry at
\* findIndex(v) is the entry of v for every tracked value v, and every entry of the
\* heap array is tracked at its own position.
C1_MapAgreesWithHeap ==
  /\ \A v \in DOMAIN hash :
       /\ IPQ_findIndex(hash, v) > -1 /\ IPQ_findIndex(hash, v) < size(qheap)
       /\ At(qheap, IPQ_findIndex(hash, v))[1] = v
  /\ \A i \in 0 .. size(qheap) - 1 : IPQ_findIndex(hash, At(qheap, i)[1]) = i

\* C2: when enqueue(v, p2) follows enqueue(v, p1), size() is what it was after the
\* first enqueue, the queue holds exactly one entry for v, that entry carries p2,
\* and the entries of every other value are what they were before the second
\* call.
C2_ReEnqueueUpdates ==
  (qprev.op = "enqueue" /\ qret.op = "enqueue" /\ qprev.value = qret.value) =>
    /\ IPQ_size(qheap) = IPQ_size(qbefore)
    /\ Cardinality(EntriesOf(qheap, qret.value)) = 1
    /\ \A i \in EntriesOf(qheap, qret.value) : At(qheap, i)[2] = qret.priority
    /\ \A w \in QValues \ {qret.value} : \A p \in Priorities :
         PrioritiesOf(qheap, w, p) = PrioritiesOf(qbefore, w, p)

----------------------------------------------------------------------------
(* The graph storages.  An optional argument is << >> (undefined) or <<x>>. *)

\* +infinity: a number no weight handed to setEdge reaches
Infinity == MaxWeight + 1

Max(a, b) == IF a >= b THEN a ELSE b

\* Array(n).fill(x)
Fill(n, x) == [i \in 1 .. n |-> x]

(* AdjacencyList_GraphStorage: adjacencyList maps a source to its inner Map, a
   sequence of <<destination, weight>> entries in insertion order *)

AL_new(sizeOpt) ==
  [vertices |-> IF sizeOpt # << >> THEN sizeOpt[1] ELSE 0, adjacencyList |-> << >>]

AL_size(g) == g.vertices

\* Map.set on an inner Map: an existing key keeps its place
InnerSet(m, k, v) ==
  IF \E i \in 1 .. Len(m) : m[i][1] = k
  THEN [i \in 1 .. Len(m) |-> IF m[i][1] = k THEN <<k, v>> ELSE m[i]]
  ELSE Append(m, <<k, v>>)

\* a setEdge that takes the call's own indices for the vertex count
AL_setEdge_forgetsSize(g, source, destination, weightOpt) ==
  IF source < 0 \/ destination < 0 THEN [g |-> g, threw |-> TRUE]
  ELSE [g |-> [vertices |-> Max(source + 1, destination + 1),
               adjacencyList |-> g.adjacencyList],
        threw |-> FALSE]

\* setEdge: [g, threw]
AL_setEdge(g, source, destination, weightOpt) ==
  IF source < 0 \/ destination < 0 THEN [g |-> g, threw |-> TRUE]
  ELSE LET inner == IF source \in DOMAIN g.adjacencyList
                    THEN g.adjacencyList[source] ELSE << >>
           w == IF weightOpt # << >> THEN weightOpt[1] ELSE 0
       IN [g |-> [vertices |-> Max(g.vertices, Max(source + 1, destination + 1)),
                  adjacencyList |->
                    [x \in DOMAIN g.adjacencyList \cup {source} |->
                       IF x = source THEN InnerSet(inner, destination, w)
                       ELSE g.adjacencyList[x]]],
           threw |-> FALSE]

\* a weight that answers +infinity for an index past the last
AL_weight_unbounded(g, source, destination) ==
  IF source \notin DOMAIN g.adjacencyList
     \/ ~\E i \in 1 .. Len(g.adjacencyList[source]) :
           g.adjacencyList[source][i][1] = destination
  THEN [value |-> Infinity, threw |-> FALSE]
  ELSE [value |-> (CHOOSE e \in {g.adjacencyList[source][i] :
                                   i \in 1 .. Len(g.adjacencyList[source])} :
                     e[1] = destination)[2],
        threw |-> FALSE]

\* weight: [value, threw]
AL_weight(g, source, destination) ==
  LET lastIndex == AL_size(g) - 1 IN
  IF source > lastIndex \/ destination > lastIndex THEN [value |-> << >>, threw |-> TRUE]
  ELSE IF source \notin DOMAIN g.adjacencyList
          \/ ~\E i \in 1 .. Len(g.adjacencyList[source]) :
                g.adjacencyList[source][i][1] = destination
  THEN [value |-> Infinity, threw |-> FALSE]
  ELSE [value |-> (CHOOSE e \in {g.adjacencyList[source][i] :
                                   i \in 1 .. Len(g.adjacencyList[source])} :
                     e[1] = destination)[2],
        threw |-> FALSE]

\* neighbors: [value, threw], value the sequence of keys
AL_neighbors(g, vertex) ==
  IF vertex > AL_size(g) - 1 THEN [value |-> << >>, threw |-> TRUE]
  ELSE [value |-> IF vertex \in DOMAIN g.adjacencyList
                  THEN [i \in 1 .. Len(g.adjacencyList[vertex]) |->
                          g.adjacencyList[vertex][i][1]]
                  ELSE << >>,
        threw |-> FALSE]

(* AdjacencyMatrix_GraphStorage: adjacencyMatrix[i] is a reference into rows, the
   row arrays allocated so far, so that two entries may be the same array *)

\* constructor: Array(size).fill(row) puts the one row array in every entry
AM_new(sizeOpt) ==
  IF sizeOpt # << >>
  THEN [vertices |-> sizeOpt[1],
        adjacencyMatrix |-> Fill(sizeOpt[1], 1),
        rows |-> <<Fill(sizeOpt[1], Infinity)>>]
  ELSE [vertices |-> 0, adjacencyMatrix |-> << >>, rows |-> << >>]

AM_size(g) == g.vertices

\* row[j] = x for j <= row.length
ArraySet(row, j, x) == IF j < Len(row) THEN [row EXCEPT ![j + 1] = x] ELSE Append(row, x)

\* the inner loop of setEdge: row[j] = Infinity for j = from .. greaterIndex
RECURSIVE AM_extendRow(_, _, _)
AM_extendRow(row, j, greaterIndex) ==
  IF j > greaterIndex THEN row
  ELSE AM_extendRow(ArraySet(row, j, Infinity), j + 1, greaterIndex)

\* the outer loop of setEdge, from i on
RECURSIVE AM_grow(_, _, _, _)
AM_grow(g, i, lastIndex, greaterIndex) ==
  IF i > greaterIndex THEN g
  ELSE IF i <= lastIndex
  THEN AM_grow([g EXCEPT !.rows[g.adjacencyMatrix[i + 1]] =
                  AM_extendRow(@, lastIndex + 1, greaterIndex)],
               i + 1, lastIndex, greaterIndex)
  ELSE AM_grow([g EXCEPT !.rows = Append(@, Fill(greaterIndex + 1, Infinity)),
                         !.adjacencyMatrix = ArraySet(@, i, Len(g.rows) + 1)],
               i + 1, lastIndex, greaterIndex)

\* setEdge: [g, threw]
AM_setEdge(g, source, destination, weightOpt) ==
  IF source < 0 \/ destination < 0 THEN [g |-> g, threw |-> TRUE]
  ELSE LET lastIndex == AM_size(g) - 1
           greaterIndex == Max(source, destination)
           grown == IF lastIndex < source \/ lastIndex < destination
                    THEN [AM_grow(g, 0, lastIndex, greaterIndex)
                            EXCEPT !.vertices = greaterIndex + 1]
                    ELSE g
           w == IF weightOpt # << >> THEN weightOpt[1] ELSE 0
       IN [g |-> [grown EXCEPT !.rows[grown.adjacencyMatrix[source + 1]] =
                                  ArraySet(@, destination, w)],
           threw |-> FALSE]

\* weight: [value, threw]
AM_weight(g, source, destination) ==
  LET lastIndex == AM_size(g) - 1 IN
  IF source > lastIndex \/ destination > lastIndex THEN [value |-> << >>, threw |-> TRUE]
  ELSE [value |-> g.rows[g.adjacencyMatrix[source + 1]][destination + 1],
        threw |-> FALSE]

\* neighbors: [value, threw], value the indices of the row's finite cells, ascending
AM_neighbors(g, vertex) ==
  IF vertex > AM_size(g) - 1 THEN [value |-> << >>, threw |-> TRUE]
  ELSE LET row == g.rows[g.adjacencyMatrix[vertex + 1]] IN
    [value |-> SelectSeq([i \in 1 .. Len(row) |-> i - 1],
                         LAMBDA i : row[i + 1] # Infinity),
     threw |-> FALSE]

(* EdgeList_GraphStorage: edges is the array of Edge objects *)

\* Edge.DEFAULT_WEIGHT
DEFAULT_WEIGHT == 1

\* new Edge(source, destination, weight?): the weight setter stores
\* value ?? Edge.DEFAULT_WEIGHT
Edge(source, destination, weightOpt) ==
  [source |-> source, destination |-> destination,
   weight |-> IF weightOpt # << >> THEN weightOpt[1] ELSE DEFAULT_WEIGHT]

EL_new(sizeOpt) ==
  [vertices |-> IF sizeOpt # << >> THEN sizeOpt[1] ELSE 0, edges |-> << >>]

EL_size(g) == g.vertices

\* Array.findIndex for an edge source -> destination: its zero-based index, or -1
EL_findIndex(edges, source, destination) ==
  LET hits == {i \in 1 .. Len(edges) :
                 edges[i].source = source /\ edges[i].destination = destination}
  IN IF hits = {} THEN -1 ELSE (CHOOSE i \in hits : \A k \in hits : i <= k) - 1

\* setVertex: [g, threw]
EL_setVertex(g, vertex) ==
  IF vertex < 0 THEN [g |-> g, threw |-> TRUE]
  ELSE [g |-> [vertices |-> Max(g.vertices, vertex + 1),
               edges |-> IF EL_findIndex(g.edges, vertex, vertex) < 0
                         THEN Append(g.edges, Edge(vertex, vertex, <<0>>))
                         ELSE g.edges],
        threw |-> FALSE]

\* a setEdge that leaves the check of destination to its second setVertex call
EL_setEdge_checksSourceOnly(g, source, destination, weightOpt) ==
  IF source < 0 THEN [g |-> g, threw |-> TRUE]
  ELSE IF destination < 0 THEN [g |-> EL_setVertex(g, source).g, threw |-> TRUE]
  ELSE LET g2 == EL_setVertex(EL_setVertex(g, source).g, destination).g
           existEdgeIndex == EL_findIndex(g2.edges, source, destination)
       IN [g |-> [vertices |-> Max(g2.vertices, Max(source + 1, destination + 1)),
                  edges |->
                    IF existEdgeIndex > -1
                    THEN [g2.edges EXCEPT ![existEdgeIndex + 1] =
                            Edge(source, destination, weightOpt)]
                    ELSE Append(g2.edges, Edge(source, destination, weightOpt))],
           threw |-> FALSE]

\* setEdge: [g, threw]
EL_setEdge(g, source, destination, weightOpt) ==
  IF source < 0 \/ destination < 0 THEN [g |-> g, threw |-> TRUE]
  ELSE LET g2 == EL_setVertex(EL_setVertex(g, source).g, destination).g
           existEdgeIndex == EL_findIndex(g2.edges, source, destination)
       IN [g |-> [vertices |-> Max(g2.vertices, Max(source + 1, destination + 1)),
                  edges |->
                    IF existEdgeIndex > -1
                    THEN [g2.edges EXCEPT ![existEdgeIndex + 1] =
                            Edge(source, destination, weightOpt)]
                    ELSE Append(g2.edges, Edge(source, destination, weightOpt))],
           threw |-> FALSE]

\* weight: [value, threw]
EL_weight(g, source, destination) ==
  LET lastIndex == EL_size(g) - 1 IN
  IF source > lastIndex \/ destination > lastIndex THEN [value |-> << >>, threw |-> TRUE]
  ELSE LET existEdgeIndex == EL_findIndex(g.edges, source, destination) IN
    [value |-> IF existEdgeIndex < 0 THEN Infinity ELSE g.edges[existEdgeIndex + 1].weight,
     threw |-> FALSE]

\* the flatMap of neighbors, from edge i on
RECURSIVE EL_flatMap(_, _, _)
EL_flatMap(edges, i, vertex) ==
  IF i > Len(edges) THEN << >>
  ELSE (IF edges[i].source = vertex THEN <<edges[i].destination>> ELSE << >>)
       \o EL_flatMap(edges, i + 1, vertex)

\* neighbors: [value, threw]
EL_neighbors(g, vertex) ==
  IF vertex > EL_size(g) - 1 THEN [value |-> << >>, threw |-> TRUE]
  ELSE [value |-> EL_flatMap(g.edges, 1, vertex), threw |-> FALSE]

----------------------------------------------------------------------------
(* The storages' calls *)

VertexArgs == -1 .. MaxVertex

WeightArgs == {<< >>} \cup {<<w>> : w \in 0 .. MaxWeight}

\* the indices handed to weight and neighbors: every index of a storage, and one
\* past the greatest
QueryArgs == 0 .. Max(MaxVertex + 1, MaxInitSize)

InitGraphVars ==
  /\ ctorSize \in {<< >>} \cup {<<n>> : n \in 0 .. MaxInitSize}
  /\ al = AL_new(ctorSize)
  /\ am = AM_new(ctorSize)
  /\ el = EL_new(ctorSize)
  /\ gret = [op |-> "new"]
  /\ gbefore = [al |-> al, am |-> am, el |-> el]
  /\ maxRef = <<-1, -1>>
  /\ lastSet = << >>
  /\ setVertexCalled = FALSE
  /\ calls = 0

\* the storages that threw, of the three results of one call
ThrewIn(ra, rm, re) ==
  (IF ra.threw THEN {"al"} ELSE {}) \cup (IF rm.threw THEN {"am"} ELSE {})
    \cup (IF re.threw THEN {"el"} ELSE {})

\* setEdge(source, destination, weight?) on each of the three storages
SetEdge(source, destination, weightOpt) ==
  /\ calls < MaxCalls
  /\ calls' = calls + 1
  /\ LET ra == AL_setEdge(al, source, destination, weightOpt)
         rm == AM_setEdge(am, source, destination, weightOpt)
         re == EL_setEdge(el, source, destination, weightOpt)
         threwIn == ThrewIn(ra, rm, re)
     IN /\ al' = ra.g
        /\ am' = rm.g
        /\ el' = re.g
        /\ IF threwIn # {}
           THEN /\ gret' = [op |-> "setEdge", threw |-> TRUE, threwIn |-> threwIn,
                            source |-> source, destination |-> destination]
                /\ UNCHANGED <<maxRef, lastSet>>
           ELSE /\ gret' = [op |-> "setEdge", threw |-> FALSE, threwIn |-> threwIn,
                            source |-> source, destination |-> destination,
                            weight |-> weightOpt]
                /\ maxRef' = <<Max(maxRef[1], Max(source, destination)),
                                Max(maxRef[2], Max(source, destination))>>
                /\ lastSet' = MapSet(lastSet, <<source, destination>>, weightOpt)
  /\ gbefore' = [al |-> al, am |-> am, el |-> el]
  /\ UNCHANGED <<ctorSize, setVertexCalled>>
  /\ UNCHANGED notGraph

\* setVertex(vertex) on the edge list, the one storage that has it
SetVertex(vertex) ==
  /\ calls < MaxCalls
  /\ calls' = calls + 1
  /\ LET re == EL_setVertex(el, vertex) IN
       /\ el' = re.g
       /\ gret' = [op |-> "setVertex", threw |-> re.threw,
                   threwIn |-> IF re.threw THEN {"el"} ELSE {}, vertex |-> vertex]
       /\ maxRef' = IF re.threw THEN maxRef ELSE <<maxRef[1], Max(maxRef[2], vertex)>>
  /\ gbefore' = [al |-> al, am |-> am, el |-> el]
  /\ setVertexCalled' = TRUE
  /\ UNCHANGED <<ctorSize, al, am, lastSet>>
  /\ UNCHANGED notGraph

NextGraph ==
  \/ \E source \in VertexArgs, destination \in VertexArgs, weightOpt \in WeightArgs :
       SetEdge(source, destination, weightOpt)
  \/ \E vertex \in VertexArgs : SetVertex(vertex)

InitGraph == IdleHeap /\ IdleQueue /\ InitGraphVars /\ IdleTop

SpecGraph == InitGraph /\ [][NextGraph]_vars

\* weight(source, destination) on each of the three storages; it writes to no field.
\* A query that follows a query leads to the state it leads to when it follows the
\* call before, so the queries are taken after a constructor or a mutator only.
Weight(source, destination) ==
  /\ gret.op \notin {"weight", "neighbors"}
  /\ LET ra == AL_weight(al, source, destination)
         rm == AM_weight(am, source, destination)
         re == EL_weight(el, source, destination)
     IN gret' = [op |-> "weight", threw |-> ThrewIn(ra, rm, re) # {},
                 threwIn |-> ThrewIn(ra, rm, re),
                 source |-> source, destination |-> destination,
                 value |-> <<ra.value, rm.value, re.value>>]
  /\ gbefore' = [al |-> al, am |-> am, el |-> el]
  /\ UNCHANGED <<ctorSize, al, am, el, maxRef, lastSet, setVertexCalled, calls>>
  /\ UNCHANGED notGraph

\* neighbors(vertex) on each of the three storages; it writes to no field
Neighbors(vertex) ==
  /\ gret.op \notin {"weight", "neighbors"}
  /\ LET ra == AL_neighbors(al, vertex)
         rm == AM_neighbors(am, vertex)
         re == EL_neighbors(el, vertex)
     IN gret' = [op |-> "neighbors", threw |-> ThrewIn(ra, rm, re) # {},
                 threwIn |-> ThrewIn(ra, rm, re), vertex |-> vertex,
                 value |-> <<ra.value, rm.value, re.value>>]
  /\ gbefore' = [al |-> al, am |-> am, el |-> el]
  /\ UNCHANGED <<ctorSize, al, am, el, maxRef, lastSet, setVertexCalled, calls>>
  /\ UNCHANGED notGraph

\* setEdge in a run that also makes queries
QueryRunSetEdge(source, destination, weightOpt) ==
  calls < MaxQueryRunCalls /\ SetEdge(source, destination, weightOpt)

\* setVertex in a run that also makes queries
QueryRunSetVertex(vertex) ==
  calls < MaxQueryRunCalls /\ SetVertex(vertex)

\* the storages' queries, between at most MaxQueryRunCalls calls of the mutators
NextGraphQueries ==
  \/ \E source \in VertexArgs, destination \in VertexArgs, weightOpt \in WeightArgs :
       QueryRunSetEdge(source, destination, weightOpt)
  \/ \E vertex \in VertexArgs : QueryRunSetVertex(vertex)
  \/ \E source \in QueryArgs, destination \in QueryArgs : Weight(source, destination)
  \/ \E vertex \in QueryArgs : Neighbors(vertex)

SpecGraphQueries == InitGraph /\ [][NextGraphQueries]_vars

----------------------------------------------------------------------------
(* Claims about the storages *)

\* C6: for storages created without an initial size, size() is 1 + the greatest
\* index passed to a successful setEdge (for the edge list: setEdge or setVertex),
\* 0 when there was none, and no call makes size() smaller.
C6_SizeIsOnePlusMax ==
  /\ ctorSize = << >> =>
       /\ AL_size(al) = 1 + maxRef[1]
       /\ AM_size(am) = 1 + maxRef[1]
       /\ EL_size(el) = 1 + maxRef[2]
  /\ AL_size(al) >= AL_size(gbefore.al)
  /\ AM_size(am) >= AM_size(gbefore.am)
  /\ EL_size(el) >= EL_size(gbefore.el)

\* C6's case: after an index of 1 was passed, a setEdge on vertex 0 alone
C6_Witness ==
  /\ ctorSize = << >> /\ maxRef = <<1, 1>> /\ calls >= 2
  /\ gret.op = "setEdge" /\ ~gret.threw /\ gret.source = 0 /\ gret.destination = 0
  /\ AM_size(gbefore.am) = 2

\* C7: the three storages, fed the same setEdge calls, return the same weight(u, v)
\* for all u, v < size() and the same set of neighbors(u) for all u < size().
C7_BackendsAgree ==
  ~setVertexCalled =>
    /\ AL_size(al) = AM_size(am) /\ AM_size(am) = EL_size(el)
    /\ \A u, v \in 0 .. AL_size(al) - 1 :
         /\ AL_weight(al, u, v) = AM_weight(am, u, v)
         /\ AM_weight(am, u, v) = EL_weight(el, u, v)
    /\ \A u \in 0 .. AL_size(al) - 1 :
         /\ Range(AL_neighbors(al, u).value) = Range(AM_neighbors(am, u).value)
         /\ Range(AM_neighbors(am, u).value) = Range(EL_neighbors(el, u).value)

\* weight(u, v) is +infinity exactly when setEdge was never called on (u, v), and
\* otherwise the weight last handed to setEdge for (u, v)
WeightIsLastSet(w, u, v) ==
  /\ ~w.threw
  /\ w.value = Infinity <=> <<u, v>> \notin DOMAIN lastSet
  /\ <<u, v>> \in DOMAIN lastSet => w.value = lastSet[<<u, v>>][1]

\* C8: for every storage, with or without an initial vertex count, after setEdge
\* calls with finite weights and for all u, v < size(), weight(u, v) is +infinity
\* if and only if setEdge was never called on (u, v), and otherwise the weight
\* most recently stored for (u, v).
C8_InfinityIffNeverSet ==
  (~setVertexCalled /\ \A pair \in DOMAIN lastSet : lastSet[pair] # << >>) =>
    /\ \A u, v \in 0 .. AL_size(al) - 1 : WeightIsLastSet(AL_weight(al, u, v), u, v)
    /\ \A u, v \in 0 .. AM_size(am) - 1 : WeightIsLastSet(AM_weight(am, u, v), u, v)
    /\ \A u, v \in 0 .. EL_size(el) - 1 : WeightIsLastSet(EL_weight(el, u, v), u, v)

\* C9: right after setEdge(u, v) without a weight, weight(u, v) returns 0 in every
\* storage, whether the edge is new or replaces one, u = v included.
C9_OmittedWeightIsZero ==
  (gret.op = "setEdge" /\ ~gret.threw /\ gret.weight = << >>) =>
    /\ AL_weight(al, gret.source, gret.destination) = [value |-> 0, threw |-> FALSE]
    /\ AM_weight(am, gret.source, gret.destination) = [value |-> 0, threw |-> FALSE]
    /\ EL_weight(el, gret.source, gret.destination) = [value |-> 0, threw |-> FALSE]

\* what size(), weight and neighbors return, or that they throw, is the same in
\* the storages before the last call and after it
SameAnswers ==
  /\ AL_size(al) = AL_size(gbefore.al)
  /\ AM_size(am) = AM_size(gbefore.am)
  /\ EL_size(el) = EL_size(gbefore.el)
  /\ \A u, v \in QueryArgs :
       /\ AL_weight(al, u, v) = AL_weight(gbefore.al, u, v)
       /\ AM_weight(am, u, v) = AM_weight(gbefore.am, u, v)
       /\ EL_weight(el, u, v) = EL_weight(gbefore.el, u, v)
  /\ \A u \in QueryArgs :
       /\ AL_neighbors(al, u) = AL_neighbors(gbefore.al, u)
       /\ AM_neighbors(am, u) = AM_neighbors(gbefore.am, u)
       /\ EL_neighbors(el, u) = EL_neighbors(gbefore.el, u)

\* C11: setEdge with a negative source or destination throws in every storage, and
\* so does the edge list's setVertex with a negative vertex; after a call that
\* threw, size(), every weight(u, v) and every neighbors(u) are what they were
\* before it.
C11_NegativeIndexRejected ==
  /\ (gret.op = "setEdge" /\ (gret.source < 0 \/ gret.destination < 0))
       => gret.threwIn = {"al", "am", "el"}
  /\ (gret.op = "setVertex" /\ gret.vertex < 0) => gret.threwIn = {"el"}
  /\ (gret.op \in {"setEdge", "setVertex"} /\ gret.threw) => SameAnswers

\* C11's case: setEdge(1, -1) on storages that hold an edge already
C11_Witness ==
  /\ gret.op = "setEdge" /\ gret.threw /\ gret.source = 1 /\ gret.destination = -1
  /\ calls = 2 /\ Len(el.edges) > 0 /\ AM_size(am) = 2

\* the vertex has an edge in the edge array, as source or as destination
HasEdge(edges, v) ==
  \E i \in 1 .. Len(edges) : edges[i].source = v \/ edges[i].destination = v

\* C16: the edge list's setVertex(v) adds the self-loop v -> v of weight 0 only when
\* v has no edge yet: setVertex(v) on a vertex that has an edge adds none, setEdge(u, v)
\* with u # v gives neither u nor v a self-loop, and a second setVertex(v) leaves
\* the edge array as the first left it.
C16_SelfLoopOnlyIfNoEdges ==
  /\ (gret.op = "setVertex" /\ ~gret.threw) =>
       /\ HasEdge(gbefore.el.edges, gret.vertex) => el.edges = gbefore.el.edges
       /\ ~HasEdge(gbefore.el.edges, gret.vertex) =>
            el.edges = Append(gbefore.el.edges, Edge(gret.vertex, gret.vertex, <<0>>))
       /\ EL_setVertex(el, gret.vertex).g.edges = el.edges
  /\ (gret.op = "setEdge" /\ ~gret.threw /\ gret.source # gret.destination) =>
       \A v \in {gret.source, gret.destination} :
         EL_findIndex(el.edges, v, v) > -1 => EL_findIndex(gbefore.el.edges, v, v) > -1

\* the frame of a setEdge on one storage: now and before are what weight returns
\* after and before the call, n and n0 the sizes after and before it
FrameHolds(now(_, _), before(_, _), n, n0) ==
  \A x, y \in 0 .. n - 1 :
    <<x, y>> # <<gret.source, gret.destination>> =>
      IF x < n0 /\ y < n0 THEN now(x, y) = before(x, y)
      ELSE now(x, y) = [value |-> Infinity, threw |-> FALSE]

\* C19: a successful setEdge(u, v, w) changes the weight of the pair (u, v) only, in
\* every storage, built with or without a vertex count: every other pair that was
\* in range keeps its weight, and every other pair that came into range has
\* weight +infinity.
C19_SetEdgeChangesOnePair ==
  (gret.op = "setEdge" /\ ~gret.threw) =>
    /\ FrameHolds(LAMBDA x, y : AL_weight(al, x, y),
                  LAMBDA x, y : AL_weight(gbefore.al, x, y),
                  AL_size(al), AL_size(gbefore.al))
    /\ FrameHolds(LAMBDA x, y : AM_weight(am, x, y),
                  LAMBDA x, y : AM_weight(gbefore.am, x, y),
                  AM_size(am), AM_size(gbefore.am))
    /\ FrameHolds(LAMBDA x, y : EL_weight(el, x, y),
                  LAMBDA x, y : EL_weight(gbefore.el, x, y),
                  EL_size(el), EL_size(gbefore.el))

QueriesSucceedOn(i) ==
  /\ \A x \in 0 .. AL_size(al) - 1 :
       /\ ~AL_weight(al, i, x).threw /\ AL_weight(al, i, x).value \in 0 .. Infinity
       /\ ~AL_weight(al, x, i).threw /\ AL_weight(al, x, i).value \in 0 .. Infinity
  /\ \A x \in 0 .. AM_size(am) - 1 :
       /\ ~AM_weight(am, i, x).threw /\ AM_weight(am, i, x).value \in 0 .. Infinity
       /\ ~AM_weight(am, x, i).threw /\ AM_weight(am, x, i).value \in 0 .. Infinity
  /\ \A x \in 0 .. EL_size(el) - 1 :
       /\ ~EL_weight(el, i, x).threw /\ EL_weight(el, i, x).value \in 0 .. Infinity
       /\ ~EL_weight(el, x, i).threw /\ EL_weight(el, x, i).value \in 0 .. Infinity
  /\ ~AL_neighbors(al, i).threw /\ ~AM_neighbors(am, i).threw /\ ~EL_neighbors(el, i).threw

\* C12: in every storage weight(i, x), weight(x, i) and neighbors(i) throw for an
\* index i >= size() and leave size(), the weights and the neighbors as they were;
\* setEdge with non-negative indices succeeds whatever size() is, and afterwards
\* size() >= i + 1 and the queries on i succeed for each of its indices i.
C12_QueryInsertAsymmetry ==
  /\ gret.op = "weight" =>
       /\ (gret.source >= AL_size(al) \/ gret.destination >= AL_size(al))
            => "al" \in gret.threwIn
       /\ (gret.source >= AM_size(am) \/ gret.destination >= AM_size(am))
            => "am" \in gret.threwIn
       /\ (gret.source >= EL_size(el) \/ gret.destination >= EL_size(el))
            => "el" \in gret.threwIn
  /\ gret.op = "neighbors" =>
       /\ gret.vertex >= AL_size(al) => "al" \in gret.threwIn
       /\ gret.vertex >= AM_size(am) => "am" \in gret.threwIn
       /\ gret.vertex >= EL_size(el) => "el" \in gret.threwIn
  /\ gret.op \in {"weight", "neighbors"} =>
       SameAnswers /\ al = gbefore.al /\ am = gbefore.am /\ el = gbefore.el
  /\ (gret.op = "setEdge" /\ gret.source >= 0 /\ gret.destination >= 0) =>
       /\ ~gret.threw
       /\ \A i \in {gret.source, gret.destination} :
            /\ AL_size(al) >= i + 1 /\ AM_size(am) >= i + 1 /\ EL_size(el) >= i + 1
            /\ QueriesSucceedOn(i)

\* C12's case: storages built with one vertex, where weight(1, 0) throws, have taken
\* setEdge(1, 0), and weight(1, 0) returns
C12_Witness ==
  /\ gret.op = "setEdge" /\ ~gret.threw /\ gret.source = 1 /\ gret.destination = 0
  /\ ctorSize = <<1>>
  /\ AL_weight(gbefore.al, 1, 0).threw /\ AM_weight(gbefore.am, 1, 0).threw
  /\ EL_weight(gbefore.el, 1, 0).threw
  /\ ~AL_weight(al, 1, 0).threw /\ ~AM_weight(am, 1, 0).threw /\ ~EL_weight(el, 1, 0).threw

----------------------------------------------------------------------------
(* DirectedGraph, as the topological sort reads it: a vertex count and a set of
   edges <<u, v>> over the vertices 0 .. size - 1 *)

DG_size(g) == g.size

\* the destinations of the edges that leave a vertex; the sort iterates over them
\* in the order the graph's storage returns them, here any order
DG_neighbors(g, v) == {e[2] : e \in {x \in g.edges : x[1] = v}}

\* the graph of the strategy's test: edges (0,1), (0,2), (1,3), (2,3), (3,4)
TestGraph ==
  [size |-> 5, edges |-> {<<0, 1>>, <<0, 2>>, <<1, 3>>, <<2, 3>>, <<3, 4>>}]

\* every graph of at most MaxGraphSize vertices and MaxEdges edges, self-loops
\* and cycles included, and the test's graph
Graphs ==
  {TestGraph} \cup
  UNION {{[size |-> n, edges |-> E] :
            E \in {X \in SUBSET ((0 .. n - 1) \X (0 .. n - 1)) : Cardinality(X) <= MaxEdges}} :
         n \in 0 .. MaxGraphSize}

----------------------------------------------------------------------------
(* Dfs_TopSortStrategy: execute's loop, and topSort's recursion as a stack *)

\* a topSort call on a execVertex: the neighbors its for-loop still has to take
Frame(g, v) == [vertex |-> v, todo |-> DG_neighbors(g, v)]

InitTopVars ==
  /\ graph \in Graphs
  /\ order = Fill(DG_size(graph), << >>)
  /\ currentIndex = DG_size(graph) - 1
  /\ visited = Fill(DG_size(graph), FALSE)
  /\ execVertex = 0
  /\ stack = << >>
  /\ pc = "loop"

\* execute's loop, between topSort calls: skip a visited vertex, or mark the vertex
\* and call topSort on it; past the last vertex, return order
ExecuteLoop ==
  /\ pc = "loop" /\ stack = << >>
  /\ IF execVertex < DG_size(graph)
     THEN IF visited[execVertex + 1]
          THEN /\ execVertex' = execVertex + 1
               /\ UNCHANGED <<visited, stack, pc>>
          ELSE /\ visited' = [visited EXCEPT ![execVertex + 1] = TRUE]
               /\ stack' = <<Frame(graph, execVertex)>>
               /\ UNCHANGED <<execVertex, pc>>
     ELSE /\ pc' = "done"
          /\ UNCHANGED <<visited, stack, execVertex>>
  /\ UNCHANGED <<graph, order, currentIndex>>
  /\ UNCHANGED notTop

\* topSort's loop takes its next neighbor: skip it if visited, else mark it and
\* call topSort on it
TopSortNeighbor ==
  /\ pc = "loop" /\ stack # << >>
  /\ \E neighbor \in stack[Len(stack)].todo :
       LET rest == [stack EXCEPT ![Len(stack)].todo = @ \ {neighbor}] IN
       IF visited[neighbor + 1]
       THEN /\ stack' = rest
            /\ UNCHANGED visited
       ELSE /\ visited' = [visited EXCEPT ![neighbor + 1] = TRUE]
            /\ stack' = Append(rest, Frame(graph, neighbor))
  /\ UNCHANGED <<graph, order, currentIndex, execVertex, pc>>
  /\ UNCHANGED notTop

\* a topSort that fills order from the front
TopSortReturn_fromFront ==
  /\ pc = "loop" /\ stack # << >> /\ stack[Len(stack)].todo = {}
  /\ order' = ArraySet(order, DG_size(graph) - 1 - currentIndex,
                       <<stack[Len(stack)].vertex>>)
  /\ currentIndex' = currentIndex - 1
  /\ stack' = SubSeq(stack, 1, Len(stack) - 1)
  /\ execVertex' = IF Len(stack) = 1 THEN execVertex + 1 ELSE execVertex
  /\ UNCHANGED <<graph, visited, pc>>
  /\ UNCHANGED notTop

\* a topSort that returns the index it was handed
TopSortReturn_sameIndex ==
  /\ pc = "loop" /\ stack # << >> /\ stack[Len(stack)].todo = {}
  /\ order' = ArraySet(order, currentIndex, <<stack[Len(stack)].vertex>>)
  /\ currentIndex' = currentIndex
  /\ stack' = SubSeq(stack, 1, Len(stack) - 1)
  /\ execVertex' = IF Len(stack) = 1 THEN execVertex + 1 ELSE execVertex
  /\ UNCHANGED <<graph, visited, pc>>
  /\ UNCHANGED notTop

\* topSort's loop is over: order[currentIndex] = vertex, return currentIndex - 1;
\* when the call was execute's, its loop goes on to the next vertex
TopSortReturn ==
  /\ pc = "loop" /\ stack # << >> /\ stack[Len(stack)].todo = {}
  /\ order' = ArraySet(order, currentIndex, <<stack[Len(stack)].vertex>>)
  /\ currentIndex' = currentIndex - 1
  /\ stack' = SubSeq(stack, 1, Len(stack) - 1)
  /\ execVertex' = IF Len(stack) = 1 THEN execVertex + 1 ELSE execVertex
  /\ UNCHANGED <<graph, visited, pc>>
  /\ UNCHANGED notTop

NextTop == ExecuteLoop \/ TopSortNeighbor \/ TopSortReturn

InitTop == IdleHeap /\ IdleQueue /\ IdleGraph /\ InitTopVars

SpecTopSort == InitTop /\ [][NextTop]_vars

\* execute runs on one thread without waiting: while it has a step to take, it
\* takes it
LiveTopSort == InitTop /\ [][NextTop]_vars /\ WF_vars(NextTop)

----------------------------------------------------------------------------
(* Claims about the topological sort *)

\* the vertices that k or fewer further edges reach from the set S
RECURSIVE ReachFrom(_, _, _)
ReachFrom(g, S, k) ==
  IF k = 0 THEN S
  ELSE ReachFrom(g, S \cup UNION {DG_neighbors(g, u) : u \in S}, k - 1)

\* no vertex reaches itself along one or more edges
Acyclic(g) ==
  \A v \in 0 .. DG_size(g) - 1 : v \notin ReachFrom(g, DG_neighbors(g, v), DG_size(g))

\* the positions of order that hold v
Slots(v) == {i \in 1 .. Len(order) : order[i] = <<v>>}

\* C10: for an acyclic graph execute returns a sequence of length size() that
\* holds each vertex 0 .. size()-1 exactly once, with u before v for every edge
\* u -> v; the empty graph yields [], the single vertex 0 yields [0], and the
\* test's graph yields [0,1,2,3,4] or [0,2,1,3,4].
C10_TopologicalOrder ==
  (pc = "done" /\ Acyclic(graph)) =>
    /\ Len(order) = DG_size(graph)
    /\ \A v \in 0 .. DG_size(graph) - 1 : Cardinality(Slots(v)) = 1
    /\ \A e \in graph.edges : \A i \in Slots(e[1]) : \A j \in Slots(e[2]) : i < j
    /\ graph = [size |-> 0, edges |-> {}] => order = << >>
    /\ graph = [size |-> 1, edges |-> {}] => order = <<<<0>>>>
    /\ graph = TestGraph =>
         order \in {<<<<0>>, <<1>>, <<2>>, <<3>>, <<4>>>>,
                    <<<<0>>, <<2>>, <<1>>, <<3>>, <<4>>>>}

\* C18: on every graph, with cycles and self-loops or without, execute returns,
\* and when it has returned every vertex is marked visited, the slot counter is -1
\* and order holds each vertex 0 .. size()-1 exactly once.
C18_TerminatesWithPermutation ==
  <>[](/\ pc = "done"
       /\ stack = << >>
       /\ currentIndex = -1
       /\ Len(order) = DG_size(graph)
       /\ \A v \in 0 .. DG_size(graph) - 1 : visited[v + 1] /\ Cardinality(Slots(v)) = 1)

\* C18's case: execute has returned for a graph with the cycle 0 -> 1 -> 0 and the
\* self-loop 2 -> 2
C18_Witness ==
  /\ pc = "done" /\ currentIndex = -1
  /\ graph = [size |-> 3, edges |-> {<<0, 1>>, <<1, 0>>, <<2, 2>>}]
  /\ order = <<<<2>>, <<0>>, <<1>>>>

\* C10's case: execute has returned the order 0, 2, 1, 3, 4 for the test's graph
C10_Witness ==
  /\ pc = "done" /\ graph = TestGraph
  /\ order = <<<<0>>, <<2>>, <<1>>, <<3>>, <<4>>>>

====
